---- MODULE Spec2Model ----
(***************************************************************************)
(* Verification workflow of the TruePort backend: the unified route file   *)
(* mounted at /api/verify (src/src/routes/experiences.js, lines 294-720),  *)
(* the verifier dashboard routes (src/src/routes/verifier.js), the         *)
(* Verification and VerificationLog models and the item routes that read   *)
(* the verified flag.                                                      *)
(*                                                                         *)
(* Every request handler is an async function.  Between two awaited store  *)
(* operations other handlers run, so a handler is a sequence of steps, one *)
(* per awaited store operation together with the synchronous code that     *)
(* follows it up to the next await.  Procs are the handlers in flight.     *)
(***************************************************************************)
EXTENDS Integers, Sequences, FiniteSets, TLC

\* ------------------------------------------------------------------ bounds
MaxVerifs == 2      \* Verification documents ever inserted
MaxLog == 3         \* VerificationLog documents ever inserted
MaxTime == 72       \* the clock stops here (hours)
TickHours == 72     \* the clock advances in steps of this many hours

\* --------------------------------------------------------- program constants
TTLHours == 72      \* expiresAt default: Date.now() + 72 * 60 * 60 * 1000

Procs == {"p1", "p2"}

None == "<none>"    \* undefined / null / no document

\* ------------------------------------------------------------------- users
\* The User collection.  institute "" is an unset institute (falsy in JS).
UserIds == {"s1", "s2", "v1", "v2", "v3"}

Users ==
    [u \in UserIds |->
        CASE u = "s1" -> [email |-> "s1@mit.edu", role |-> "STUDENT", institute |-> "MIT"]
          [] u = "s2" -> [email |-> "s2@home.org", role |-> "STUDENT", institute |-> ""]
          [] u = "v1" -> [email |-> "v1@mit.edu", role |-> "VERIFIER", institute |-> "MIT"]
          [] u = "v2" -> [email |-> "v2@stanford.edu", role |-> "VERIFIER", institute |-> "Stanford"]
          [] u = "v3" -> [email |-> "v3@home.org", role |-> "VERIFIER", institute |-> ""]]

\* String.prototype.toLowerCase on the strings the model feeds it.
toLowerCase(s) ==
    CASE s = "V1@MIT.edu" -> "v1@mit.edu"
      [] s = "Eve@X.org" -> "eve@x.org"
      [] s = "Admin@MIT.edu" -> "admin@mit.edu"
      [] s = "EXPERIENCE" -> "experience"
      [] s = "EDUCATION" -> "education"
      [] s = "GITHUB_PROJECT" -> "github_project"
      [] s = "BOGUS" -> "bogus"
      [] OTHER -> s

\* String.prototype.toUpperCase on the item types the model feeds it.
toUpperCase(s) ==
    CASE s = "experience" -> "EXPERIENCE"
      [] s = "bogus" -> "BOGUS"
      [] OTHER -> s

validTypes == {"EXPERIENCE", "EDUCATION", "GITHUB_PROJECT"}

\* JS truthiness of a string-or-undefined value.
Falsy(s) == s = None \/ s = ""

\* comment || ''
OrEmpty(s) == IF Falsy(s) THEN "" ELSE s

\* User.findOne({ email, role: 'VERIFIER' }): a user id or None.
FindVerifierByEmail(email) ==
    IF \E u \in UserIds : Users[u].email = email /\ Users[u].role = "VERIFIER"
    THEN CHOOSE u \in UserIds : Users[u].email = email /\ Users[u].role = "VERIFIER"
    ELSE None

\* ------------------------------------------------------------------- inputs
ItemIds == {"i1", "i2"}
Tokens == {"t1", "t2"}              \* the tokens ever issued
TokenInputs == Tokens \cup {"t9"}   \* t9 is a token no document ever holds

\* requestVerification calls <<user, itemType, itemId, verifierEmail>>: the valid
\* one, and one for every precondition the handler checks.
RequestInputs ==
    { <<"s1", "experience", "i1", "V1@MIT.edu">>,
      <<"s1", "experience", "i1", "">>,
      <<"s1", "bogus", "i1", "V1@MIT.edu">>,
      <<"s1", "EDUCATION", "i1", "V1@MIT.edu">>,
      <<"s2", "experience", "i1", "V1@MIT.edu">>,
      <<"s1", "experience", "i1", "s1@mit.edu">>,
      <<"s1", "experience", "i1", "v2@stanford.edu">>,
      <<"s1", "experience", "i1", "v3@home.org">>,
      <<"s2", "EDUCATION", "i2", "V1@MIT.edu">> }

\* approve / reject by token: <<token, actorEmail, comment>>.
DecisionInputs ==
    { <<"t1", "v1@mit.edu", "Great work">>,
      <<"t1", "Eve@X.org", None>>,
      <<"t2", "v1@mit.edu", None>>,
      <<"t9", "v1@mit.edu", None>>,
      <<"t1", "", None>> }

\* approve / reject on the dashboard: <<user, requestId, comment>>.
DashInputs ==
    { <<"v1", 1, None>>, <<"v1", 1, "Great work">>, <<"v1", MaxVerifs, None>>,
      <<"v2", 1, None>>, <<"s1", 1, None>> }

\* item deletes: <<user, itemId>>.
DeleteInputs == { <<"s1", "i1">>, <<"s2", "i1">> }

\* ------------------------------------------------------------------- state
VARIABLES
    now,        \* the clock, in hours
    items,      \* item id -> item document (NoItem once deleted)
    verifs,     \* sequence of Verification documents, index = _id (NoVerif once removed)
    log,        \* sequence of VerificationLog documents, in insertion order
    pc,         \* per handler in flight: its position
    call,       \* per handler in flight: its inputs and locals
    last,       \* the response the step just taken sent, with the call that produced
                \* it and the emails it handed to the gateway; NoCall otherwise
    logDown,    \* the log collection refuses inserts (a store outage)
    nLogFail,   \* log inserts refused so far
    known,      \* tokens the user acting alone has read from responses
    admins,     \* admin kind -> the admin's document
    adminCall,  \* per admin login in flight: its position, input and document read
    adminLast,  \* the response the admin login step just taken sent
    failed,     \* admin kind -> failed logins since the last success or lock
    account,    \* the User document of the user who sets up a profile
    assoc,      \* that user's AssociationRequest document
    roleLast,   \* the response the profile step just taken sent
    req,        \* the request the verification router is dispatching
    nOk,        \* per Verification: success responses sent by approve/reject
    nItemWrites \* per Verification: item updates issued by approve/reject

vars == <<now, items, verifs, log, pc, call, last, logDown, nLogFail, known,
          admins, adminCall, adminLast, failed, account, assoc, roleLast, req,
          nOk, nItemWrites>>

\* What only the handlers outside the verification workflow proper write.
lockout == <<admins, adminCall, adminLast, failed>>
roles == <<account, assoc, roleLast>>
aux == <<known, lockout, roles, req>>

stores == <<items, verifs, log>>

\* A handler's inputs and locals.  code 0: no response sent yet.
\* logIdx: position of the log document the handler inserted; 0 none yet,
\* -1 its insert failed.  itemGone (decisions): no item was stored when the
\* handler looked its Verification up.  afterReject (requests): when the call
\* arrived, a reject of this item had reported success and still stood.
NoCall ==
    [op |-> None, user |-> None, itemType |-> None, itemId |-> None,
     verifierEmail |-> None, token |-> None, actorEmail |-> None,
     comment |-> None, vid |-> 0, expiresAt |-> 0, effects |-> 0,
     logIdx |-> 0, itemGone |-> FALSE, afterReject |-> FALSE,
     mail |-> None, code |-> 0, msg |-> None]

\* ----------------------------------------------------- admin accounts
\* SuperAdmin and InstituteAdmin; both log in through the same code shape.
AdminKinds == {"SUPER", "INSTITUTE"}

AdminEmail == [SUPER |-> "root@trueport.io", INSTITUTE |-> "admin@mit.edu"]

\* lockUntil 0: the field is unset.  lastLogin -1: never.
NewAdmin == [isActive |-> TRUE, loginAttempts |-> 0, lockUntil |-> 0, lastLogin |-> -1]

\* A login in flight: the password sent and the document findOne returned.
NoAdminCall == [st |-> "idle", kind |-> None, password |-> None, this |-> NewAdmin]

NoAdminResponse == [kind |-> None, code |-> 0, msg |-> None]

\* ------------------------------------------------- the profile's owner
\* The User document as the schema's defaults leave it; institute "" is unset.
NewUser ==
    [role |-> "STUDENT", institute |-> "", roleSetPermanently |-> FALSE,
     profileSetupComplete |-> FALSE, associationStatus |-> "NONE"]

\* No AssociationRequest document stored.
NoAssociation == [status |-> "NONE", requestedRole |-> None, institute |-> None]

NoRoleResponse == [op |-> None, code |-> 0]

\* ------------------------------------------- a request being dispatched
NoParams == [itemType |-> None, itemId |-> None, token |-> None, experienceId |-> None]

NoReq ==
    [st |-> "none", method |-> None, url |-> <<>>, authed |-> FALSE, idx |-> 0,
     params |-> NoParams, hops |-> 0, handler |-> None, code |-> 0]

\* An item document; exists = FALSE once findByIdAndDelete removed it.
NewItem(owner, kind) ==
    [exists |-> TRUE, userId |-> owner, kind |-> kind, verified |-> FALSE,
     verifiedAt |-> -1, verifiedBy |-> None, verifierComment |-> None]

NoItem ==
    [exists |-> FALSE, userId |-> None, kind |-> None, verified |-> FALSE,
     verifiedAt |-> -1, verifiedBy |-> None, verifierComment |-> None]

\* A Verification document removed from the collection.
NoVerif ==
    [exists |-> FALSE, itemId |-> None, itemType |-> None, verifierEmail |-> None,
     token |-> None, status |-> None, comment |-> None, actedBy |-> None,
     actedAt |-> -1, expiresAt |-> -1, createdAt |-> -1]

Init ==
    /\ now = 0
    /\ items = [i \in ItemIds |->
                  IF i = "i1" THEN NewItem("s1", "EXPERIENCE")
                              ELSE NewItem("s2", "EDUCATION")]
    /\ verifs = <<>>
    /\ log = <<>>
    /\ pc = [p \in Procs |-> "idle"]
    /\ call = [p \in Procs |-> NoCall]
    /\ last = NoCall
    /\ logDown \in BOOLEAN
    /\ nLogFail = 0
    /\ known = {}
    /\ admins = [k \in AdminKinds |-> NewAdmin]
    /\ adminCall = [p \in Procs |-> NoAdminCall]
    /\ adminLast = NoAdminResponse
    /\ failed = [k \in AdminKinds |-> 0]
    /\ account = NewUser
    /\ assoc = NoAssociation
    /\ roleLast = NoRoleResponse
    /\ req = NoReq
    /\ nOk = <<>>
    /\ nItemWrites = <<>>

\* ----------------------------------------------------------------- helpers
VerifIds == 1..Len(verifs)

Present(v) == v \in VerifIds /\ verifs[v].exists

\* { status: 'PENDING', expiresAt: { $gt: new Date() } }
Live(v) == Present(v) /\ verifs[v].status = "PENDING" /\ verifs[v].expiresAt > now

\* Handlers in flight running one of ops.
InFlight(ops) == Cardinality({p \in Procs : call[p].op \in ops})

\* Handlers that insert a log document; LogRoom keeps the log inserts tried
\* within MaxLog.
LogOps == {"request", "view", "approve", "reject", "dashApprove", "dashReject"}

LogRoom == Len(log) + nLogFail + InFlight(LogOps) < MaxLog

\* getModelAndItem(itemType, itemId, userId): the item document or NoItem.
getModelAndItem(itemType, itemId, userId) ==
    IF /\ items[itemId].exists
       /\ items[itemId].kind = toUpperCase(itemType)
       /\ (userId # None => items[itemId].userId = userId)
    THEN items[itemId] ELSE NoItem

\* res.status(code).json({ message }) ends the handler whose record is c.
Respond(p, c, code, msg) ==
    /\ last' = [c EXCEPT !.code = code, !.msg = msg]
    /\ pc' = [pc EXCEPT ![p] = "idle"]
    /\ call' = [call EXCEPT ![p] = NoCall]

\* The handler goes on to its next awaited operation.
Goto(p, c, label) ==
    /\ pc' = [pc EXCEPT ![p] = label]
    /\ call' = [call EXCEPT ![p] = c]
    /\ last' = NoCall

\* new VerificationLog({...}); actorEmail has the lowercase setter.
LogDoc(v, action, actorEmail) ==
    [verificationId |-> v, action |-> action, actorEmail |-> toLowerCase(actorEmail)]

\* new VerificationLog({...}).save()
LogAppend(v, action, actorEmail) == Append(log, LogDoc(v, action, actorEmail))

\* The insert of a log document is stored, or refused while the log collection
\* is down, in which case save() throws into the handler's catch block.
SaveOutcomes == IF logDown THEN {"refused"} ELSE {"stored"}

\* ------------------------------------------- POST /request/:itemType/:itemId
\* InstituteCheck without the check for an unset institute.
InstituteCheck_NoUnsetCheck(student, verifier) ==
    IF student.institute # verifier.institute
    THEN <<403, "Verification can only be requested from verifiers in your institution">>
    ELSE <<0, None>>

\* User.findById(req.user._id) and the two institute checks: the response code
\* and message, or <<0, None>> when the handler goes on.
InstituteCheck(student, verifier) ==
    IF Falsy(student.institute) \/ Falsy(verifier.institute)
    THEN <<400, "Both student and verifier must have institutes associated">>
    ELSE IF student.institute # verifier.institute
    THEN <<403, "Verification can only be requested from verifiers in your institution">>
    ELSE <<0, None>>

\* A reject of the item has been logged and has answered, its Verification is
\* stored as REJECTED, and no decision is in flight.
RejectStands(itemType, itemId) ==
    /\ \E v \in VerifIds : /\ Present(v)
                           /\ verifs[v].itemId = itemId
                           /\ verifs[v].itemType = toUpperCase(itemType)
                           /\ verifs[v].status = "REJECTED"
                           /\ \E k \in 1..Len(log) :
                                  log[k] = LogDoc(v, "REJECTED", log[k].actorEmail)
    /\ InFlight({"approve", "reject", "dashApprove", "dashReject"}) = 0

\* Validation of the body and the type, getModelAndItem and the checks on the
\* item, then the two User reads and the institute checks.  No modelled operation
\* writes users, so the User reads are taken at the instant of the item read.
RequestStart(p, user, itemType, itemId, verifierEmail) ==
    /\ pc[p] = "idle"
    /\ LET c == [NoCall EXCEPT !.op = "request", !.user = user, !.itemType = itemType,
                               !.itemId = itemId, !.verifierEmail = verifierEmail,
                               !.afterReject = RejectStands(itemType, itemId)]
           item == getModelAndItem(itemType, itemId, user)
           verifier == FindVerifierByEmail(toLowerCase(verifierEmail))
           r == InstituteCheck(Users[user], Users[verifier])
       IN  IF Falsy(verifierEmail)
           THEN Respond(p, c, 400, "Verifier email is required")
           ELSE IF toUpperCase(itemType) \notin validTypes
           THEN Respond(p, c, 400, "Invalid item type. Must be one of: EXPERIENCE, EDUCATION, GITHUB_PROJECT")
           ELSE IF ~item.exists
           THEN Respond(p, c, 404, toLowerCase(itemType) \o " not found")
           ELSE IF item.verified
           THEN Respond(p, c, 400, toLowerCase(itemType) \o " is already verified")
           ELSE IF verifier = None
           THEN Respond(p, c, 400, "Verifier not found or not registered as verifier")
           ELSE IF r[1] # 0
           THEN Respond(p, c, r[1], r[2])
           ELSE /\ Len(verifs) + InFlight({"request"}) < MaxVerifs
                /\ LogRoom
                /\ Goto(p, c, "rq_existing")
    /\ UNCHANGED <<aux, logDown, nLogFail, now, stores, nOk, nItemWrites>>

\* Verification.findOne({ itemId, itemType, status: 'PENDING', expiresAt > now })
ExistingPending(itemId, itemType) ==
    \E v \in VerifIds : /\ Live(v)
                        /\ verifs[v].itemId = itemId
                        /\ verifs[v].itemType = itemType

\* `Verification request already pending for this ${itemType.toLowerCase()}`
AlreadyPendingMsg(itemType) ==
    "Verification request already pending for this " \o toLowerCase(itemType)

\* NewVerification with an expiresAt default of 24 hours.
NewVerification_ShortExpiry(c) ==
    [exists |-> TRUE, itemId |-> c.itemId, itemType |-> toUpperCase(c.itemType),
     verifierEmail |-> toLowerCase(c.verifierEmail), token |-> c.token,
     status |-> "PENDING", comment |-> None, actedBy |-> None, actedAt |-> -1,
     expiresAt |-> c.expiresAt - 48, createdAt |-> c.expiresAt - TTLHours]

\* The document new Verification({...}) builds; defaults of the schema.
NewVerification(c) ==
    [exists |-> TRUE, itemId |-> c.itemId, itemType |-> toUpperCase(c.itemType),
     verifierEmail |-> toLowerCase(c.verifierEmail), token |-> c.token,
     status |-> "PENDING", comment |-> None, actedBy |-> None, actedAt |-> -1,
     expiresAt |-> c.expiresAt, createdAt |-> c.expiresAt - TTLHours]

\* token: { unique: true }
TokenTaken(t) == \E v \in VerifIds : Present(v) /\ verifs[v].token = t

\* A stored document or a request in flight holds token t.
TokenHeld(t) ==
    \/ TokenTaken(t)
    \/ \E q \in Procs : call[q].op = "request" /\ call[q].token = t

\* generateVerificationToken(): 32 random bytes.  Any token may come out, one
\* that is held included; tokens nobody holds are interchangeable, so of
\* those only the first is drawn.
generateVerificationToken ==
    {t \in Tokens : TokenHeld(t)}
        \cup (IF ~TokenHeld("t1") THEN {"t1"}
              ELSE IF ~TokenHeld("t2") THEN {"t2"} ELSE {})

\* RequestCheckExisting with the insert issued before the duplicate check.
RequestCheckExisting_AfterInsert(p) ==
    /\ pc[p] = "rq_existing"
    /\ \E t \in generateVerificationToken :
         LET c == [call[p] EXCEPT !.token = t, !.expiresAt = now + TTLHours,
                                  !.vid = Len(verifs) + 1, !.effects = @ + 1]
         IN  /\ ~TokenTaken(t)
             /\ verifs' = Append(verifs, NewVerification(c))
             /\ nOk' = Append(nOk, 0)
             /\ nItemWrites' = Append(nItemWrites, 0)
             /\ IF ExistingPending(c.itemId, toUpperCase(c.itemType))
                THEN Respond(p, c, 400, AlreadyPendingMsg(c.itemType))
                ELSE Goto(p, c, "rq_log")
    /\ UNCHANGED <<aux, logDown, nLogFail, now, items, log>>

\* The duplicate check; then generateVerificationToken() and new Verification(),
\* whose expiresAt and createdAt defaults are evaluated here.
RequestCheckExisting(p) ==
    /\ pc[p] = "rq_existing"
    /\ IF ExistingPending(call[p].itemId, toUpperCase(call[p].itemType))
       THEN Respond(p, call[p], 400, AlreadyPendingMsg(call[p].itemType))
       ELSE \E t \in generateVerificationToken :
              Goto(p, [call[p] EXCEPT !.token = t, !.expiresAt = now + TTLHours], "rq_save")
    /\ UNCHANGED <<aux, logDown, nLogFail, now, stores, nOk, nItemWrites>>

\* verification.save(): the insert; a duplicate token is error E11000, which
\* the catch block answers with 500.
RequestSave(p) ==
    /\ pc[p] = "rq_save"
    /\ IF TokenTaken(call[p].token)
       THEN /\ Respond(p, call[p], 500, "Failed to create verification request")
            /\ UNCHANGED <<verifs, nOk, nItemWrites>>
       ELSE /\ verifs' = Append(verifs, NewVerification(call[p]))
            /\ nOk' = Append(nOk, 0)
            /\ nItemWrites' = Append(nItemWrites, 0)
            /\ Goto(p, [call[p] EXCEPT !.vid = Len(verifs) + 1, !.effects = @ + 1], "rq_log")
    /\ UNCHANGED <<aux, logDown, nLogFail, now, items, log>>

\* RequestLog without the insert.
RequestLog_NoInsert(p) ==
    /\ pc[p] = "rq_log"
    /\ Goto(p, call[p], "rq_mail")
    /\ UNCHANGED <<aux, logDown, nLogFail, now, items, verifs, log, nOk, nItemWrites>>

\* new VerificationLog({ action: 'CREATED', actorEmail: req.user.email }).save()
RequestLog(p) ==
    /\ pc[p] = "rq_log"
    /\ \E saved \in SaveOutcomes :
         IF saved = "stored"
         THEN /\ nLogFail' = nLogFail
              /\ log' = LogAppend(call[p].vid, "CREATED", Users[call[p].user].email)
              /\ Goto(p, [call[p] EXCEPT !.effects = @ + 1, !.logIdx = Len(log) + 1],
                      "rq_mail")
         ELSE /\ nLogFail' = nLogFail + 1
              /\ log' = log
              /\ Respond(p, [call[p] EXCEPT !.logIdx = -1], 500,
                         "Failed to create verification request")
    /\ UNCHANGED <<aux, logDown, now, items, verifs, nOk, nItemWrites>>

\* RequestMail answering 500 when the email was not sent.
RequestMail_FailOnMailError(p) ==
    /\ pc[p] = "rq_mail"
    /\ \E emailSent \in {"sent", "failed"} :
         IF emailSent = "sent"
         THEN Respond(p, [call[p] EXCEPT !.effects = @ + 1, !.mail = emailSent], 201,
                      "Verification request sent successfully")
         ELSE Respond(p, [call[p] EXCEPT !.mail = emailSent], 500,
                      "Failed to create verification request")
    /\ UNCHANGED <<aux, logDown, nLogFail, now, items, verifs, log, nOk, nItemWrites>>

\* sendVerificationEmail returns true or false and never throws; 201 either way.
RequestMail(p) ==
    /\ pc[p] = "rq_mail"
    /\ \E emailSent \in {"sent", "failed"} :
         Respond(p, [call[p] EXCEPT !.effects = @ + 1, !.mail = emailSent], 201,
                 "Verification request sent successfully")
    /\ UNCHANGED <<aux, logDown, nLogFail, now, items, verifs, log, nOk, nItemWrites>>

\* ------------------------------------------------------------ GET /:token
\* FindByToken without the expiresAt condition.
FindByToken_NoExpiry(token) ==
    IF \E v \in VerifIds : Present(v) /\ verifs[v].token = token
    THEN CHOOSE v \in VerifIds : Present(v) /\ verifs[v].token = token
    ELSE 0

\* Verification.findOne({ token, expiresAt: { $gt: new Date() } }): an _id or 0.
FindByToken(token) ==
    IF \E v \in VerifIds : Present(v) /\ verifs[v].token = token /\ verifs[v].expiresAt > now
    THEN CHOOSE v \in VerifIds :
            Present(v) /\ verifs[v].token = token /\ verifs[v].expiresAt > now
    ELSE 0

ViewStart(p, token) ==
    /\ pc[p] = "idle"
    /\ LogRoom
    /\ LET c == [NoCall EXCEPT !.op = "view", !.token = token]
           v == FindByToken(token)
       IN  IF v = 0
           THEN Respond(p, c, 404, "Verification not found or expired")
           ELSE Goto(p, [c EXCEPT !.vid = v, !.itemType = verifs[v].itemType,
                                  !.itemId = verifs[v].itemId,
                                  !.verifierEmail = verifs[v].verifierEmail], "vw_item")
    /\ UNCHANGED <<aux, logDown, nLogFail, now, stores, nOk, nItemWrites>>

\* getModelAndItem(verification.itemType, verification.itemId)
ViewItem(p) ==
    /\ pc[p] = "vw_item"
    /\ IF ~getModelAndItem(call[p].itemType, call[p].itemId, None).exists
       THEN Respond(p, call[p], 404, "Associated item not found")
       ELSE Goto(p, call[p], "vw_log")
    /\ UNCHANGED <<aux, logDown, nLogFail, now, stores, nOk, nItemWrites>>

\* The two User reads (no modelled operation writes users), then the VIEWED
\* log document and the response.
ViewLog(p) ==
    /\ pc[p] = "vw_log"
    /\ \E saved \in SaveOutcomes :
         IF saved = "stored"
         THEN /\ nLogFail' = nLogFail
              /\ log' = LogAppend(call[p].vid, "VIEWED", call[p].verifierEmail)
              /\ Respond(p, [call[p] EXCEPT !.effects = @ + 1, !.logIdx = Len(log) + 1],
                         200, None)
         ELSE /\ nLogFail' = nLogFail + 1
              /\ log' = log
              /\ Respond(p, [call[p] EXCEPT !.logIdx = -1], 500,
                         "Failed to fetch verification")
    /\ UNCHANGED <<aux, logDown, now, items, verifs, nOk, nItemWrites>>

\* ------------------------------------- POST /:token/approve, /:token/reject
\* FindPendingByToken without the expiresAt condition.
FindPendingByToken_NoExpiry(token) ==
    IF \E v \in VerifIds : Present(v) /\ verifs[v].status = "PENDING" /\ verifs[v].token = token
    THEN CHOOSE v \in VerifIds :
            Present(v) /\ verifs[v].status = "PENDING" /\ verifs[v].token = token
    ELSE 0

\* FindPendingByToken without the status condition.
FindPendingByToken_NoStatus(token) ==
    IF \E v \in VerifIds : Present(v) /\ verifs[v].expiresAt > now /\ verifs[v].token = token
    THEN CHOOSE v \in VerifIds :
            Present(v) /\ verifs[v].expiresAt > now /\ verifs[v].token = token
    ELSE 0

\* Verification.findOne({ token, status: 'PENDING', expiresAt: { $gt: now } })
FindPendingByToken(token) ==
    IF \E v \in VerifIds : Live(v) /\ verifs[v].token = token
    THEN CHOOSE v \in VerifIds : Live(v) /\ verifs[v].token = token
    ELSE 0

\* The actorEmail check and the lookup, for op "approve" or "reject".
TokenDecisionStart(p, op, token, actorEmail, comment) ==
    /\ pc[p] = "idle"
    /\ LogRoom
    /\ LET c == [NoCall EXCEPT !.op = op, !.token = token, !.actorEmail = actorEmail,
                               !.comment = comment]
           v == FindPendingByToken(token)
       IN  IF Falsy(actorEmail)
           THEN Respond(p, c, 400, "Actor email is required")
           ELSE IF v = 0
           THEN Respond(p, c, 404, "Verification not found, already processed, or expired")
           ELSE Goto(p, [c EXCEPT !.vid = v, !.itemType = verifs[v].itemType,
                                  !.itemId = verifs[v].itemId,
                                  !.itemGone = ~items[verifs[v].itemId].exists],
                     "tk_save")
    /\ UNCHANGED <<aux, logDown, nLogFail, now, stores, nOk, nItemWrites>>

ApproveStart(p, token, actorEmail, comment) ==
    TokenDecisionStart(p, "approve", token, actorEmail, comment)

RejectStart(p, token, actorEmail, comment) ==
    TokenDecisionStart(p, "reject", token, actorEmail, comment)

StatusOf(op) == IF op \in {"approve", "dashApprove"} THEN "APPROVED" ELSE "REJECTED"

\* verification.save() of a loaded document: an update by _id that sets the
\* modified paths, whatever the stored document holds by now.  The pre-save hook
\* sets actedAt because status was modified.
SaveDecision(v, status, comment, actedBy) ==
    [verifs EXCEPT ![v] = [@ EXCEPT !.status = status, !.comment = OrEmpty(comment),
                                    !.actedBy = actedBy, !.actedAt = now]]

\* The message of the catch block.
FailedMsg(op) ==
    IF StatusOf(op) = "APPROVED" THEN "Failed to approve verification"
                                 ELSE "Failed to reject verification"

\* What the token route stores for call c: the Verification it saves, the
\* item update it issues and the log document it inserts.
TokenSaveEffect(c) ==
    SaveDecision(c.vid, StatusOf(c.op), c.comment, toLowerCase(c.actorEmail))

\* save() of a document that is no longer stored throws DocumentNotFoundError;
\* the catch block answers 500.
TokenSave(p) ==
    /\ pc[p] = "tk_save"
    /\ IF ~Present(call[p].vid)
       THEN /\ Respond(p, call[p], 500, FailedMsg(call[p].op))
            /\ UNCHANGED verifs
       ELSE /\ verifs' = TokenSaveEffect(call[p])
            /\ Goto(p, [call[p] EXCEPT !.effects = @ + 1], "tk_item")
    /\ UNCHANGED <<aux, logDown, nLogFail, now, items, log, nOk, nItemWrites>>

\* Model.findByIdAndUpdate(itemId, { verified: true, verifiedAt, verifiedBy,
\* verifierComment }): the approve path.
markVerified(item, by, comment) ==
    [item EXCEPT !.verified = TRUE, !.verifiedAt = now, !.verifiedBy = by,
                 !.verifierComment = OrEmpty(comment)]

\* Model.findByIdAndUpdate(itemId, { verifiedBy, verifierComment }): the reject path.
markDecision(item, by, comment) ==
    [item EXCEPT !.verifiedBy = by, !.verifierComment = OrEmpty(comment)]

ItemStored(itemType, itemId) == items[itemId].exists /\ items[itemId].kind = itemType

\* findByIdAndUpdate writes nothing, and raises nothing, when no item is stored.
UpdateItem(op, itemType, itemId, by, comment) ==
    IF ItemStored(itemType, itemId)
    THEN [items EXCEPT ![itemId] = IF StatusOf(op) = "APPROVED"
                                   THEN markVerified(@, by, comment)
                                   ELSE markDecision(@, by, comment)]
    ELSE items

CountItemWrite(c) ==
    IF ItemStored(c.itemType, c.itemId)
    THEN [nItemWrites EXCEPT ![c.vid] = @ + 1]
    ELSE nItemWrites

TokenItemEffect(c) ==
    UpdateItem(c.op, c.itemType, c.itemId, toLowerCase(c.actorEmail), c.comment)

TokenLogEffect(c) == LogAppend(c.vid, StatusOf(c.op), toLowerCase(c.actorEmail))

\* getModelAndItem (its item is not used) and Model.findByIdAndUpdate.
TokenItem(p) ==
    /\ pc[p] = "tk_item"
    /\ items' = TokenItemEffect(call[p])
    /\ nItemWrites' = CountItemWrite(call[p])
    /\ Goto(p, [call[p] EXCEPT !.effects = @ + 1], "tk_log")
    /\ UNCHANGED <<aux, logDown, nLogFail, now, verifs, log, nOk>>

\* The APPROVED / REJECTED log document and the 200 response.
TokenLog(p) ==
    /\ pc[p] = "tk_log"
    /\ \E saved \in SaveOutcomes :
         IF saved = "stored"
         THEN /\ nLogFail' = nLogFail
              /\ log' = TokenLogEffect(call[p])
              /\ nOk' = [nOk EXCEPT ![call[p].vid] = @ + 1]
              /\ Respond(p, [call[p] EXCEPT !.effects = @ + 1, !.logIdx = Len(log) + 1],
                         200,
                         IF call[p].op = "approve"
                         THEN toLowerCase(call[p].itemType) \o " verified successfully"
                         ELSE "Verification rejected")
         ELSE /\ nLogFail' = nLogFail + 1
              /\ log' = log
              /\ nOk' = nOk
              /\ Respond(p, [call[p] EXCEPT !.logIdx = -1], 500, FailedMsg(call[p].op))
    /\ UNCHANGED <<aux, logDown, now, items, verifs, nItemWrites>>

\* ------------------------ POST /approve/:requestId, /reject/:requestId
\* Verification.findOne({ _id, verifierEmail: req.user.email, status: 'PENDING',
\* expiresAt: { $gt: new Date() } })
FindPendingForVerifier(v, email) ==
    IF Live(v) /\ verifs[v].verifierEmail = email THEN v ELSE 0

\* requireVerifier, then the lookup, for op "dashApprove" or "dashReject".
DashDecisionStart(p, op, user, v, comment) ==
    /\ pc[p] = "idle"
    /\ LogRoom
    /\ LET c == [NoCall EXCEPT !.op = op, !.user = user, !.comment = comment,
                               !.actorEmail = Users[user].email]
           f == FindPendingForVerifier(v, Users[user].email)
       IN  IF Users[user].role # "VERIFIER"
           THEN Respond(p, c, 403, "Access denied. Verifier role required.")
           ELSE IF f = 0
           THEN Respond(p, c, 404, "Verification request not found or already processed")
           ELSE Goto(p, [c EXCEPT !.vid = f, !.itemType = verifs[f].itemType,
                                  !.itemId = verifs[f].itemId,
                                  !.itemGone = ~items[verifs[f].itemId].exists],
                     "da_item")
    /\ UNCHANGED <<aux, logDown, nLogFail, now, stores, nOk, nItemWrites>>

DashApproveStart(p, user, v, comment) == DashDecisionStart(p, "dashApprove", user, v, comment)

DashRejectStart(p, user, v, comment) == DashDecisionStart(p, "dashReject", user, v, comment)

\* !item || item.userId.institute !== req.user.institute
OtherInstitute(itemType, itemId, user) ==
    \/ ~ItemStored(itemType, itemId)
    \/ Users[items[itemId].userId].institute # Users[user].institute

\* Model.findById(itemId).populate('userId') and the institute check.
DashItem(p) ==
    /\ pc[p] = "da_item"
    /\ IF OtherInstitute(call[p].itemType, call[p].itemId, call[p].user)
       THEN Respond(p, call[p], 403, "Can only verify items from students in your institution")
       ELSE Goto(p, call[p], "da_save")
    /\ UNCHANGED <<aux, logDown, nLogFail, now, stores, nOk, nItemWrites>>

\* verification.save()
DashSave(p) ==
    /\ pc[p] = "da_save"
    /\ IF ~Present(call[p].vid)
       THEN /\ Respond(p, call[p], 500, FailedMsg(call[p].op))
            /\ UNCHANGED verifs
       ELSE /\ verifs' = SaveDecision(call[p].vid, StatusOf(call[p].op), call[p].comment,
                                      call[p].actorEmail)
            /\ Goto(p, [call[p] EXCEPT !.effects = @ + 1], "da_update")
    /\ UNCHANGED <<aux, logDown, nLogFail, now, items, log, nOk, nItemWrites>>

\* DashUpdate without the comment.
DashUpdate_NoComment(p) ==
    /\ pc[p] = "da_update"
    /\ items' = UpdateItem(call[p].op, call[p].itemType, call[p].itemId,
                           call[p].actorEmail, None)
    /\ nItemWrites' = CountItemWrite(call[p])
    /\ Goto(p, [call[p] EXCEPT !.effects = @ + 1], "da_log")
    /\ UNCHANGED <<aux, logDown, nLogFail, now, verifs, log, nOk>>

\* Model.findByIdAndUpdate
DashUpdate(p) ==
    /\ pc[p] = "da_update"
    /\ items' = UpdateItem(call[p].op, call[p].itemType, call[p].itemId,
                           call[p].actorEmail, call[p].comment)
    /\ nItemWrites' = CountItemWrite(call[p])
    /\ Goto(p, [call[p] EXCEPT !.effects = @ + 1], "da_log")
    /\ UNCHANGED <<aux, logDown, nLogFail, now, verifs, log, nOk>>

\* The log document.
DashLog(p) ==
    /\ pc[p] = "da_log"
    /\ \E saved \in SaveOutcomes :
         IF saved = "stored"
         THEN /\ nLogFail' = nLogFail
              /\ log' = LogAppend(call[p].vid, StatusOf(call[p].op), call[p].actorEmail)
              /\ Goto(p, [call[p] EXCEPT !.effects = @ + 1, !.logIdx = Len(log) + 1],
                      "da_mail")
         ELSE /\ nLogFail' = nLogFail + 1
              /\ log' = log
              /\ Respond(p, [call[p] EXCEPT !.logIdx = -1], 500, FailedMsg(call[p].op))
    /\ UNCHANGED <<aux, logDown, now, items, verifs, nOk, nItemWrites>>

\* sendVerificationDecisionEmail to the owner read in DashItem (true or false,
\* never throws) and the 200 response.
DashMail(p) ==
    /\ pc[p] = "da_mail"
    /\ nOk' = [nOk EXCEPT ![call[p].vid] = @ + 1]
    /\ \E emailSent \in {"sent", "failed"} :
         Respond(p, [call[p] EXCEPT !.effects = @ + 1, !.mail = emailSent], 200, None)
    /\ UNCHANGED <<aux, logDown, nLogFail, now, items, verifs, log, nItemWrites>>

\* ------------------------------------------------- DELETE /:id of an item
\* Model.findOne({ _id, userId: req.user._id }) and the verified check.
DeleteStart(p, user, itemId) ==
    /\ pc[p] = "idle"
    /\ LET c == [NoCall EXCEPT !.op = "delete", !.user = user, !.itemId = itemId]
       IN  IF ~(items[itemId].exists /\ items[itemId].userId = user)
           THEN Respond(p, c, 404, "Experience not found")
           ELSE IF items[itemId].verified
           THEN Respond(p, c, 400, "Cannot delete verified experience")
           ELSE Goto(p, c, "del_do")
    /\ UNCHANGED <<aux, logDown, nLogFail, now, stores, nOk, nItemWrites>>

\* Model.findByIdAndDelete(req.params.id)
DeleteDo(p) ==
    /\ pc[p] = "del_do"
    /\ items' = [items EXCEPT ![call[p].itemId] = NoItem]
    /\ Respond(p, call[p], 200, "Experience deleted successfully")
    /\ UNCHANGED <<aux, logDown, nLogFail, now, verifs, log, nOk, nItemWrites>>

\* ------------------------------------ GET /history/:itemType/:itemId
\* Verification.find({ itemId, itemType }): the _ids of the documents returned.
History(itemType, itemId) ==
    {v \in VerifIds : /\ Present(v)
                      /\ verifs[v].itemId = itemId
                      /\ verifs[v].itemType = toUpperCase(itemType)}

\* getModelAndItem(itemType, itemId, req.user._id): the owner's check.
HistoryStart(p, user, itemType, itemId) ==
    /\ pc[p] = "idle"
    /\ LET c == [NoCall EXCEPT !.op = "history", !.user = user, !.itemType = itemType,
                               !.itemId = itemId]
       IN  IF ~getModelAndItem(itemType, itemId, user).exists
           THEN Respond(p, c, 404, toLowerCase(itemType) \o " not found")
           ELSE Goto(p, c, "hi_find")
    /\ UNCHANGED <<aux, logDown, nLogFail, now, stores, nOk, nItemWrites>>

\* Verification.find(...) and res.json({ verifications }): the documents go out
\* whole, token included, so the caller has read their tokens.
HistoryFind(p) ==
    /\ pc[p] = "hi_find"
    /\ known' = known \cup {verifs[v].token : v \in History(call[p].itemType, call[p].itemId)}
    /\ Respond(p, call[p], 200, None)
    /\ UNCHANGED <<logDown, nLogFail, now, stores, nOk, nItemWrites, lockout, roles, req>>

\* ------------------------------------ POST /notify-resend/:requestId
\* action: { enum: ['CREATED', 'APPROVED', 'REJECTED', 'VIEWED'] }
LogActions == {"CREATED", "APPROVED", "REJECTED", "VIEWED"}

\* resend calls <<user, requestId>>.
ResendInputs == { <<"v1", 1>>, <<"v1", MaxVerifs>>, <<"v2", 1>>, <<"s1", 1>> }

\* requireVerifier, then Verification.findOne({ _id, verifierEmail:
\* req.user.email, status: 'PENDING', expiresAt: { $gt: new Date() } })
ResendStart(p, user, v) ==
    /\ pc[p] = "idle"
    /\ LET c == [NoCall EXCEPT !.op = "resend", !.user = user]
           f == FindPendingForVerifier(v, Users[user].email)
       IN  IF Users[user].role # "VERIFIER"
           THEN Respond(p, c, 403, "Access denied. Verifier role required.")
           ELSE IF f = 0
           THEN Respond(p, c, 404, "Verification request not found or expired")
           ELSE Goto(p, [c EXCEPT !.vid = f, !.itemType = verifs[f].itemType,
                                  !.itemId = verifs[f].itemId,
                                  !.token = verifs[f].token], "rs_item")
    /\ UNCHANGED <<aux, logDown, nLogFail, now, stores, nOk, nItemWrites>>

\* Model.findById(verification.itemId)
ResendItem(p) ==
    /\ pc[p] = "rs_item"
    /\ IF ~ItemStored(call[p].itemType, call[p].itemId)
       THEN Respond(p, call[p], 404, "Associated item not found")
       ELSE Goto(p, call[p], "rs_mail")
    /\ UNCHANGED <<aux, logDown, nLogFail, now, stores, nOk, nItemWrites>>

\* sendVerificationEmail: false answers 500, true goes on to the log insert.
ResendMail(p) ==
    /\ pc[p] = "rs_mail"
    /\ \E emailSent \in {"sent", "failed"} :
         IF emailSent = "failed"
         THEN Respond(p, [call[p] EXCEPT !.mail = emailSent], 500,
                      "Failed to send verification email")
         ELSE Goto(p, [call[p] EXCEPT !.mail = emailSent, !.effects = @ + 1], "rs_log")
    /\ UNCHANGED <<aux, logDown, nLogFail, now, stores, nOk, nItemWrites>>

\* new VerificationLog({ action: 'EMAIL_RESENT', ... }).save(): validation runs
\* before the insert and throws for an action outside the enum; the catch block
\* answers 500.  Otherwise the insert and the response with the link.
ResendLog(p) ==
    /\ pc[p] = "rs_log"
    /\ IF "EMAIL_RESENT" \notin LogActions \/ logDown
       THEN /\ log' = log
            /\ Respond(p, [call[p] EXCEPT !.logIdx = -1], 500,
                       "Failed to resend notification")
       ELSE /\ log' = LogAppend(call[p].vid, "EMAIL_RESENT", Users[call[p].user].email)
            /\ Respond(p, [call[p] EXCEPT !.logIdx = Len(log) + 1, !.effects = @ + 1],
                       200, None)
    /\ UNCHANGED <<aux, logDown, nLogFail, now, items, verifs, nOk, nItemWrites>>

\* ------------------------------------------------------------ environment
\* Time passes.
Tick ==
    /\ now + TickHours <= MaxTime
    /\ now' = now + TickHours
    /\ last' = NoCall
    /\ UNCHANGED <<aux, logDown, nLogFail, stores, pc, call, nOk, nItemWrites>>

\* expiresAt: index { expireAfterSeconds: 0 }: the store's TTL monitor removes a
\* document once its expiresAt has passed.
TTLMonitor(v) ==
    /\ Present(v)
    /\ verifs[v].expiresAt <= now
    /\ verifs' = [verifs EXCEPT ![v] = NoVerif]
    /\ last' = NoCall
    /\ UNCHANGED <<aux, logDown, nLogFail, now, items, log, pc, call, nOk, nItemWrites>>

Next ==
    \/ \E p \in Procs :
        \/ \E r \in RequestInputs : RequestStart(p, r[1], r[2], r[3], r[4])
        \/ RequestCheckExisting(p)
        \/ RequestSave(p)
        \/ RequestLog(p)
        \/ RequestMail(p)
        \/ \E t \in TokenInputs : ViewStart(p, t)
        \/ ViewItem(p)
        \/ ViewLog(p)
        \/ \E d \in DecisionInputs :
              \/ ApproveStart(p, d[1], d[2], d[3])
              \/ RejectStart(p, d[1], d[2], d[3])
        \/ TokenSave(p)
        \/ TokenItem(p)
        \/ TokenLog(p)
        \/ \E d \in DashInputs :
              \/ DashApproveStart(p, d[1], d[2], d[3])
              \/ DashRejectStart(p, d[1], d[2], d[3])
        \/ DashItem(p)
        \/ DashSave(p)
        \/ DashUpdate(p)
        \/ DashLog(p)
        \/ DashMail(p)
        \/ \E d \in DeleteInputs : DeleteStart(p, d[1], d[2])
        \/ DeleteDo(p)
    \/ Tick
    \/ \E v \in 1..MaxVerifs : TTLMonitor(v)

Spec == Init /\ [][Next]_vars

\* ------------------------------------------------ one user acting alone
\* The calls one user can make with nobody else taking part: the user's own
\* requests, history reads and deletes, and token calls with a token the user
\* has read from a response.  Emails go to the verifier, not to this user.
Solo == "s1"

SoloNext ==
    \/ \E p \in Procs :
        \/ \E r \in {x \in RequestInputs : x[1] = Solo} :
              RequestStart(p, r[1], r[2], r[3], r[4])
        \/ RequestCheckExisting(p)
        \/ RequestSave(p)
        \/ RequestLog(p)
        \/ RequestMail(p)
        \/ \E i \in ItemIds : HistoryStart(p, Solo, "experience", i)
        \/ HistoryFind(p)
        \/ \E t \in known : ViewStart(p, t)
        \/ ViewItem(p)
        \/ ViewLog(p)
        \/ \E d \in {x \in DecisionInputs : x[1] \in known} :
              \/ ApproveStart(p, d[1], d[2], d[3])
              \/ RejectStart(p, d[1], d[2], d[3])
        \/ TokenSave(p)
        \/ TokenItem(p)
        \/ TokenLog(p)
        \/ \E d \in {x \in DeleteInputs : x[1] = Solo} : DeleteStart(p, d[1], d[2])
        \/ DeleteDo(p)
    \/ Tick
    \/ \E v \in 1..MaxVerifs : TTLMonitor(v)

SpecSolo == Init /\ [][SoloNext]_vars

\* ------------------------------------------------ requests and resends
ResendNext ==
    \/ \E p \in Procs :
        \/ \E r \in RequestInputs : RequestStart(p, r[1], r[2], r[3], r[4])
        \/ RequestCheckExisting(p)
        \/ RequestSave(p)
        \/ RequestLog(p)
        \/ RequestMail(p)
        \/ \E d \in ResendInputs : ResendStart(p, d[1], d[2])
        \/ ResendItem(p)
        \/ ResendMail(p)
        \/ ResendLog(p)
        \/ \E d \in DeleteInputs : DeleteStart(p, d[1], d[2])
        \/ DeleteDo(p)
    \/ Tick
    \/ \E v \in 1..MaxVerifs : TTLMonitor(v)

SpecResend == Init /\ [][ResendNext]_vars

\* -------------------------------------- POST /login of the admin routers
MaxHour == 5        \* the clock of the lockout runs up to this hour
MaxFailed == 5      \* no login starts once this many failed in a row

\* "Lock account after 5 failed attempts"
MaxLoginAttempts == 5

\* lockUntil: Date.now() + 4 hours (super admin), + 2 hours (institute admin)
LockHours == [SUPER |-> 4, INSTITUTE |-> 2]

\* login calls <<kind, email, password>>.
LoginInputs ==
    { <<k, AdminEmail[k], pw>> : k \in AdminKinds, pw \in {"right", "wrong"} }
        \cup { <<"INSTITUTE", "Admin@MIT.edu", "right">>,
               <<"SUPER", "nobody@x.org", "right">>,
               <<"SUPER", "", "right">>,
               <<"INSTITUTE", "admin@mit.edu", "">> }

\* virtual isLocked: !!(this.lockUntil && this.lockUntil > Date.now())
isLocked(this, t) == this.lockUntil # 0 /\ this.lockUntil > t

\* this.updateOne(...) of incLoginAttempts: `this` is the document the login
\* read, doc the document stored when the update arrives.
incLoginAttempts(k, this, doc, t) ==
    IF this.lockUntil # 0 /\ this.lockUntil < t
    THEN [doc EXCEPT !.lockUntil = 0, !.loginAttempts = 1]
    ELSE IF this.loginAttempts + 1 >= MaxLoginAttempts /\ ~isLocked(this, t)
         THEN [doc EXCEPT !.loginAttempts = @ + 1, !.lockUntil = t + LockHours[k]]
         ELSE [doc EXCEPT !.loginAttempts = @ + 1]

\* this.updateOne({ $unset: { loginAttempts: 1, lockUntil: 1 } })
resetLoginAttempts(doc) == [doc EXCEPT !.loginAttempts = 0, !.lockUntil = 0]

AdminRespond(p, k, code, msg) ==
    /\ adminCall' = [adminCall EXCEPT ![p] = NoAdminCall]
    /\ adminLast' = [kind |-> k, code |-> code, msg |-> msg]

\* The handler up to the lock check: findOne by email, isActive, isLocked.
\* One admin account is logged into per behaviour.
LoginStart(p, k, email, password) ==
    /\ adminCall[p].st = "idle"
    /\ failed[k] < MaxFailed
    /\ \A j \in AdminKinds \ {k} :
          admins[j] = NewAdmin /\ \A q \in Procs : adminCall[q].kind # j
    /\ IF Falsy(email) \/ Falsy(password)
       THEN AdminRespond(p, k, 400, "Email and password are required")
       ELSE IF toLowerCase(email) # AdminEmail[k]
       THEN AdminRespond(p, k, 401, "Invalid credentials")
       ELSE IF ~admins[k].isActive
       THEN AdminRespond(p, k, 401, "Account is deactivated")
       ELSE IF isLocked(admins[k], now)
       THEN AdminRespond(p, k, 423,
                "Account is temporarily locked due to too many failed attempts")
       ELSE /\ adminCall' = [adminCall EXCEPT ![p] =
                   [st |-> "compare", kind |-> k, password |-> password,
                    this |-> admins[k]]]
            /\ adminLast' = NoAdminResponse
    /\ UNCHANGED <<admins, failed, now, stores, pc, call, last, logDown, nLogFail,
                   known, roles, req, nOk, nItemWrites>>

\* comparePassword, then incLoginAttempts and 401, or resetLoginAttempts,
\* updateLastLogin and the token.
LoginCompare(p) ==
    /\ adminCall[p].st = "compare"
    /\ LET k == adminCall[p].kind
           this == adminCall[p].this
       IN  IF adminCall[p].password # "right"
           THEN LET doc == incLoginAttempts(k, this, admins[k], now)
                IN  /\ admins' = [admins EXCEPT ![k] = doc]
                    /\ failed' = [failed EXCEPT ![k] =
                                    IF isLocked(doc, now) THEN 0 ELSE @ + 1]
                    /\ AdminRespond(p, k, 401, "Invalid credentials")
           ELSE LET doc == IF this.loginAttempts > 0
                           THEN resetLoginAttempts(admins[k]) ELSE admins[k]
                IN  /\ admins' = [admins EXCEPT ![k] = [doc EXCEPT !.lastLogin = now]]
                    /\ failed' = [failed EXCEPT ![k] = 0]
                    /\ AdminRespond(p, k, 200, "Login successful")
    /\ UNCHANGED <<now, stores, pc, call, last, logDown, nLogFail, known, roles, req,
                   nOk, nItemWrites>>

\* An hour passes.
Hour ==
    /\ now < MaxHour
    /\ now' = now + 1
    /\ adminLast' = NoAdminResponse
    /\ UNCHANGED <<admins, adminCall, failed, stores, pc, call, last, logDown,
                   nLogFail, known, roles, req, nOk, nItemWrites>>

LockoutNext ==
    \/ \E p \in Procs :
        \/ \E l \in LoginInputs : LoginStart(p, l[1], l[2], l[3])
        \/ LoginCompare(p)
    \/ Hour

SpecLockout == Init /\ [][LockoutNext]_vars

\* -------------------------------------------- roles and associations
RoleInputs == {None, "STUDENT", "VERIFIER", "ADMIN"}
InstituteInputs == {None, "MIT", "Stanford"}

RoleRespond(op, code) == roleLast' = [op |-> op, code |-> code]

RolesUnchanged ==
    UNCHANGED <<now, stores, pc, call, last, logDown, nLogFail, known, lockout, req,
                nOk, nItemWrites>>

\* POST /setup-profile
SetupProfile(role, institute) ==
    /\ IF account.roleSetPermanently
       THEN RoleRespond("setupProfile", 400) /\ UNCHANGED account
       ELSE IF role \notin {"STUDENT", "VERIFIER"} \/ Falsy(institute)
       THEN RoleRespond("setupProfile", 400) /\ UNCHANGED account
       ELSE /\ account' = [account EXCEPT
                             !.role = role, !.institute = institute,
                             !.profileSetupComplete = TRUE,
                             !.associationStatus =
                                 IF role = "STUDENT" THEN "NONE" ELSE "APPROVED",
                             !.roleSetPermanently = (role = "VERIFIER")]
            /\ RoleRespond("setupProfile", 200)
    /\ UNCHANGED assoc
    /\ RolesUnchanged

\* PUT /change-role
ChangeRole(role, institute) ==
    /\ IF account.roleSetPermanently
       THEN RoleRespond("changeRole", 400) /\ UNCHANGED account
       ELSE IF role \notin {"STUDENT", "VERIFIER"}
       THEN RoleRespond("changeRole", 400) /\ UNCHANGED account
       ELSE IF role = "VERIFIER" /\ Falsy(institute) /\ Falsy(account.institute)
       THEN RoleRespond("changeRole", 400) /\ UNCHANGED account
       ELSE /\ account' = [account EXCEPT
                             !.role = role,
                             !.institute =
                                 IF role = "VERIFIER" /\ ~Falsy(institute)
                                 THEN institute ELSE @,
                             !.associationStatus =
                                 IF account.role # role THEN "NONE" ELSE @]
            /\ RoleRespond("changeRole", 200)
    /\ UNCHANGED assoc
    /\ RolesUnchanged

\* PUT /me with the body's role and institute (None: the field is absent).
UpdateMe(role, institute) ==
    /\ IF ~Falsy(role) /\ role \notin {"STUDENT", "VERIFIER"}
       THEN RoleRespond("updateMe", 400) /\ UNCHANGED account
       ELSE IF role = "VERIFIER" /\ Falsy(institute) /\ Falsy(account.institute)
       THEN RoleRespond("updateMe", 400) /\ UNCHANGED account
       ELSE /\ account' = [account EXCEPT
                             !.role = IF role # None THEN role ELSE @,
                             !.institute = IF institute # None THEN institute ELSE @,
                             !.profileSetupComplete =
                                 IF ~Falsy(role)
                                    /\ (~Falsy(institute) \/ ~Falsy(account.institute))
                                 THEN TRUE ELSE @]
            /\ RoleRespond("updateMe", 200)
    /\ UNCHANGED assoc
    /\ RolesUnchanged

\* User.countDocuments({ role: 'VERIFIER', institute })
verifiersCount(institute) ==
    Cardinality({u \in UserIds : Users[u].role = "VERIFIER"
                                 /\ Users[u].institute = institute})
        + (IF account.role = "VERIFIER" /\ account.institute = institute
           THEN 1 ELSE 0)

\* POST /request of the association routes.  One AssociationRequest is kept:
\* no second one is created while one is pending.
RequestAssociation(requestedRole, institute) ==
    /\ IF Falsy(requestedRole) \/ Falsy(institute)
       THEN RoleRespond("requestAssociation", 400) /\ UNCHANGED <<account, assoc>>
       ELSE IF requestedRole \notin {"STUDENT", "VERIFIER"}
       THEN RoleRespond("requestAssociation", 400) /\ UNCHANGED <<account, assoc>>
       ELSE IF account.roleSetPermanently
       THEN RoleRespond("requestAssociation", 400) /\ UNCHANGED <<account, assoc>>
       ELSE IF verifiersCount(institute) = 0
       THEN RoleRespond("requestAssociation", 404) /\ UNCHANGED <<account, assoc>>
       ELSE IF assoc.status = "PENDING" /\ assoc.institute = institute
       THEN RoleRespond("requestAssociation", 400) /\ UNCHANGED <<account, assoc>>
       ELSE /\ assoc.status # "PENDING"
            /\ assoc' = [status |-> "PENDING", requestedRole |-> requestedRole,
                         institute |-> institute]
            /\ account' = [account EXCEPT !.associationStatus = "PENDING"]
            /\ RoleRespond("requestAssociation", 201)
    /\ RolesUnchanged

\* PUT /:requestId/respond by a verifier; expired: the request's expiresAt
\* has passed.
RespondAssociation(verifier, action, expired) ==
    /\ IF Users[verifier].role # "VERIFIER"
       THEN RoleRespond("respond", 403) /\ UNCHANGED <<account, assoc>>
       ELSE IF action \notin {"approve", "reject"}
       THEN RoleRespond("respond", 400) /\ UNCHANGED <<account, assoc>>
       ELSE IF ~(assoc.status = "PENDING" /\ assoc.institute = Users[verifier].institute)
       THEN RoleRespond("respond", 404) /\ UNCHANGED <<account, assoc>>
       ELSE IF expired
       THEN RoleRespond("respond", 400) /\ UNCHANGED <<account, assoc>>
       ELSE IF account.roleSetPermanently
       THEN /\ assoc' = [assoc EXCEPT !.status = "REJECTED"]
            /\ RoleRespond("respond", 400)
            /\ UNCHANGED account
       ELSE IF action = "approve"
       THEN /\ assoc' = [assoc EXCEPT !.status = "APPROVED"]
            /\ account' = [account EXCEPT
                             !.role = assoc.requestedRole,
                             !.institute = assoc.institute,
                             !.associationStatus = "APPROVED",
                             !.roleSetPermanently = TRUE,
                             !.profileSetupComplete = TRUE]
            /\ RoleRespond("respond", 200)
       ELSE /\ assoc' = [assoc EXCEPT !.status = "REJECTED"]
            /\ account' = [account EXCEPT !.associationStatus = "REJECTED"]
            /\ RoleRespond("respond", 200)
    /\ RolesUnchanged

RolesNext ==
    \/ \E r \in RoleInputs, i \in InstituteInputs :
        \/ SetupProfile(r, i)
        \/ ChangeRole(r, i)
        \/ UpdateMe(r, i)
        \/ RequestAssociation(r, i)
    \/ \E v \in {"v1", "v2", "s1"}, a \in {"approve", "reject", "bogus"}, e \in BOOLEAN :
        RespondAssociation(v, a, e)

SpecRoles == Init /\ [][RolesNext]_vars

\* ------------------------------------ dispatch in the verification router
MaxHops == 3        \* the legacy handler hands a request back at most this often

\* The router's layers in the order of their definition.
Layers ==
    << [method |-> "POST", path |-> <<"request", ":itemType", ":itemId">>,
        auth |-> TRUE, name |-> "requestVerification"],
       [method |-> "GET", path |-> <<":token">>,
        auth |-> FALSE, name |-> "view"],
       [method |-> "POST", path |-> <<":token", "approve">>,
        auth |-> FALSE, name |-> "approve"],
       [method |-> "POST", path |-> <<":token", "reject">>,
        auth |-> FALSE, name |-> "reject"],
       [method |-> "GET", path |-> <<"history", ":itemType", ":itemId">>,
        auth |-> TRUE, name |-> "history"],
       [method |-> "POST", path |-> <<"request", ":experienceId">>,
        auth |-> TRUE, name |-> "legacy"] >>

IsParam(seg) == seg \in {":itemType", ":itemId", ":token", ":experienceId"}

\* The layer's route matches the method and the path of req.url.
Matches(layer, method, url) ==
    /\ layer.method = method
    /\ Len(layer.path) = Len(url)
    /\ \A i \in 1..Len(url) : IsParam(layer.path[i]) \/ layer.path[i] = url[i]

Captured(layer, url, seg) ==
    IF \E i \in 1..Len(layer.path) : layer.path[i] = seg
    THEN url[CHOOSE i \in 1..Len(layer.path) : layer.path[i] = seg]
    ELSE None

\* req.params of a matched layer: what its path captured from req.url.
LayerParams(layer, url) ==
    [itemType |-> Captured(layer, url, ":itemType"),
     itemId |-> Captured(layer, url, ":itemId"),
     token |-> Captured(layer, url, ":token"),
     experienceId |-> Captured(layer, url, ":experienceId")]

\* Paths below the router's mount point, as segments.
UrlInputs ==
    { <<"request", "e1">>, <<"request", "experience", "e1">>, <<"t1">>,
      <<"t1", "approve">>, <<"t1", "reject">>, <<"history", "experience", "e1">>,
      <<"a", "b", "c", "d">> }

ReqUnchanged ==
    UNCHANGED <<now, stores, pc, call, last, logDown, nLogFail, known, lockout, roles,
                nOk, nItemWrites>>

\* A request reaches the router; authed: it carries a valid login.
Arrive(method, url, authed) ==
    /\ req.st \in {"none", "done"}
    /\ req' = [NoReq EXCEPT !.st = "route", !.method = method, !.url = url,
                            !.authed = authed, !.idx = 1]
    /\ ReqUnchanged

\* router.handle's next(): try the layer at idx against req.method and req.url.
Route ==
    /\ req.st = "route"
    /\ IF req.idx > Len(Layers)
       THEN req' = [req EXCEPT !.st = "done", !.code = 404]
       ELSE IF Matches(Layers[req.idx], req.method, req.url)
       THEN req' = [req EXCEPT
                      !.params = LayerParams(Layers[req.idx], req.url),
                      !.st = IF Layers[req.idx].auth THEN "auth" ELSE "handler"]
       ELSE req' = [req EXCEPT !.idx = @ + 1]
    /\ ReqUnchanged

\* requireAuth in front of a handler
RequireAuth ==
    /\ req.st = "auth"
    /\ IF req.authed
       THEN req' = [req EXCEPT !.st = "handler"]
       ELSE req' = [req EXCEPT !.st = "done", !.code = 401]
    /\ ReqUnchanged

\* The legacy handler sets two params and hands req to router.handle, which
\* starts over at the first layer with req.url as it was.
LegacyHandler ==
    /\ req.st = "handler"
    /\ Layers[req.idx].name = "legacy"
    /\ req.hops < MaxHops
    /\ req' = [req EXCEPT
                 !.params = [@ EXCEPT !.itemType = "EXPERIENCE",
                                      !.itemId = req.params.experienceId],
                 !.hops = @ + 1, !.st = "route", !.idx = 1]
    /\ ReqUnchanged

\* Every other handler answers the request itself.
Handler ==
    /\ req.st = "handler"
    /\ Layers[req.idx].name # "legacy"
    /\ req' = [req EXCEPT !.st = "done", !.handler = Layers[req.idx].name,
                          !.code = 200]
    /\ ReqUnchanged

LegacyNext ==
    \/ \E m \in {"GET", "POST"}, u \in UrlInputs, a \in BOOLEAN : Arrive(m, u, a)
    \/ Route
    \/ RequireAuth
    \/ LegacyHandler
    \/ Handler

SpecLegacy == Init /\ [][LegacyNext]_vars

\* =================================================================== claims
Decided == {"APPROVED", "REJECTED"}

TokenOps == {"view", "approve", "reject"}

ItemOf(c) == items[c.itemId]

\* ---- C1: every (itemId, itemType) has at most one Verification that is
\* PENDING and unexpired, also while requestVerification calls overlap.
C1_SinglePending ==
    \A v \in VerifIds, w \in VerifIds :
        (/\ v # w
         /\ Live(v)
         /\ Live(w)
         /\ verifs[v].itemId = verifs[w].itemId)
        => verifs[v].itemType # verifs[w].itemType

\* ---- C2: of the approve / reject calls made against one Verification, on
\* either route, at most one reports success.
C2_OneDecisionSucceeds == \A v \in VerifIds : nOk[v] <= 1

\* ---- C3: a stored status of APPROVED or REJECTED is never changed by a step.
C3_TerminalNeverChanges ==
    [][\A v \in VerifIds :
          (Present(v) /\ verifs[v].status \in Decided /\ verifs'[v].exists)
          => verifs'[v].status = verifs[v].status]_vars

\* ---- C4: the item's verification fields are written at most once per
\* Verification.
C4_ItemWrittenOncePerRequest == \A v \in VerifIds : nItemWrites[v] <= 1

\* ---- C5: an item with verified = true was approved by a user with role
\* VERIFIER whose institute is the institute of the item's owner.
C5_VerifiedBySameInstituteVerifier ==
    \A i \in ItemIds :
        (items[i].exists /\ items[i].verified)
        => \E u \in UserIds :
              /\ Users[u].email = items[i].verifiedBy
              /\ Users[u].role = "VERIFIER"
              /\ Users[u].institute = Users[items[i].userId].institute

\* ---- C6: for a PENDING Verification whose expiresAt has passed, getByToken,
\* approve and reject answer 404 with the message they give for a token no
\* document holds, and the step leaves the documents, the items and the log
\* unchanged.
ExpiredPending(t) ==
    \E v \in VerifIds : /\ Present(v)
                        /\ verifs[v].token = t
                        /\ verifs[v].status = "PENDING"
                        /\ verifs[v].expiresAt <= now

NotHeld(t) == \A v \in VerifIds : ~(Present(v) /\ verifs[v].token = t)

NotFoundMsg(op) ==
    IF op = "view" THEN "Verification not found or expired"
                   ELSE "Verification not found, already processed, or expired"

\* The step is the lookup of a call of op in TokenOps on token t that passed the
\* body validation: the handler either goes on or answers at once.
LookupGoesOn(t) ==
    \E p \in Procs : /\ pc[p] = "idle"
                     /\ pc'[p] # "idle"
                     /\ call'[p].op \in TokenOps
                     /\ call'[p].token = t

LookupAnswers(t) ==
    /\ pc' = pc
    /\ last'.op \in TokenOps
    /\ last'.token = t
    /\ (last'.op = "view" \/ ~Falsy(last'.actorEmail))

C6_ExpiredAsMissing ==
    [][\A t \in TokenInputs :
          (ExpiredPending(t) \/ NotHeld(t))
          => /\ ~LookupGoesOn(t)
             /\ LookupAnswers(t)
                => /\ last'.code = 404
                   /\ last'.msg = NotFoundMsg(last'.op)
                   /\ UNCHANGED stores]_vars

C6_Witness ==
    /\ last.op \in {"approve", "reject"}
    /\ last.code = 404
    /\ ExpiredPending(last.token)

\* ---- C7: after a successful approve the Verification is APPROVED and the
\* item has verified = true, verifiedAt set, verifiedBy the (normalised)
\* actorEmail and verifierComment the comment.  Stated for a Verification and
\* an item that are still stored when the response is sent.
StillStored(c) == Present(c.vid) /\ ItemStored(c.itemType, c.itemId)

C7_ApproveSideEffect ==
    (last.op \in {"approve", "dashApprove"} /\ last.code = 200 /\ StillStored(last))
    => /\ verifs[last.vid].status = "APPROVED"
       /\ ItemOf(last).verified
       /\ ItemOf(last).verifiedAt >= 0
       /\ ItemOf(last).verifiedBy = toLowerCase(last.actorEmail)
       /\ ItemOf(last).verifierComment = OrEmpty(last.comment)

\* ---- C8: after a successful reject the item has verified = false, with
\* verifiedBy and verifierComment taken from the call.  Stated for a
\* Verification and an item that are still stored when the response is sent.
C8_RejectSideEffect ==
    (last.op \in {"reject", "dashReject"} /\ last.code = 200 /\ StillStored(last))
    => /\ ~ItemOf(last).verified
       /\ ItemOf(last).verifiedBy = toLowerCase(last.actorEmail)
       /\ ItemOf(last).verifierComment = OrEmpty(last.comment)

\* ---- C9: requestVerification answers 403 whenever the requester's institute
\* differs from the resolved verifier's, and whenever either is unset.
\* The response is from a call whose item was found, owned and unverified and
\* whose verifier was resolved.
ReachedInstituteCheck ==
    /\ last.op = "request"
    /\ ~Falsy(last.verifierEmail)
    /\ toUpperCase(last.itemType) \in validTypes
    /\ getModelAndItem(last.itemType, last.itemId, last.user).exists
    /\ ~getModelAndItem(last.itemType, last.itemId, last.user).verified
    /\ FindVerifierByEmail(toLowerCase(last.verifierEmail)) # None

StudentInstitute == Users[last.user].institute

VerifierInstitute == Users[FindVerifierByEmail(toLowerCase(last.verifierEmail))].institute

EitherUnset == Falsy(StudentInstitute) \/ Falsy(VerifierInstitute)

PreconditionFailure == last.op = "request" /\ last.code \in {400, 403, 404}

C10_FailedRequestHasNoEffect ==
    [][(last'.op = "request" /\ last'.code \in {400, 403, 404})
       => /\ last'.effects = 0
          /\ last'.vid = 0
          /\ last'.mail = None
          /\ UNCHANGED stores]_vars

C10_Witness ==
    /\ PreconditionFailure
    /\ last.msg = AlreadyPendingMsg(last.itemType)
    /\ Len(verifs) = 1

\* ---- C11: while a Verification is stored as APPROVED or REJECTED, no approve
\* or reject call that arrives finds it: the token route answers 404 at its
\* lookup and changes nothing, and no dashboard call goes on to act on it.
DecisionOps == {"approve", "reject", "dashApprove", "dashReject"}

DecidedHeld(t) ==
    \E v \in VerifIds : /\ Present(v)
                        /\ verifs[v].token = t
                        /\ verifs[v].status \in Decided

DecisionGoesOn(t) ==
    \E p \in Procs : /\ pc[p] = "idle"
                     /\ pc'[p] # "idle"
                     /\ call'[p].op \in {"approve", "reject"}
                     /\ call'[p].token = t

DecisionAnswers(t) ==
    /\ pc' = pc
    /\ last'.op \in {"approve", "reject"}
    /\ last'.token = t
    /\ ~Falsy(last'.actorEmail)

DashGoesOn(v) ==
    \E p \in Procs : /\ pc[p] = "idle"
                     /\ pc'[p] = "da_item"
                     /\ call'[p].vid = v

C11_DecidedIsFinal ==
    [][/\ \A t \in TokenInputs :
            DecidedHeld(t)
            => /\ ~DecisionGoesOn(t)
               /\ DecisionAnswers(t) => (last'.code = 404 /\ UNCHANGED stores)
       /\ \A v \in VerifIds :
            (Present(v) /\ verifs[v].status \in Decided) => ~DashGoesOn(v)]_vars

C11_Witness ==
    /\ last.op \in {"approve", "reject"}
    /\ last.code = 404
    /\ \E v \in VerifIds : /\ Present(v)
                           /\ verifs[v].token = last.token
                           /\ verifs[v].status \in Decided
                           /\ verifs[v].expiresAt > now

\* ---- C12: a request, view, approve or reject that reports success has
\* inserted one log document for its Verification, with action CREATED, VIEWED,
\* APPROVED or REJECTED and with the actor's email (lowercased by the schema):
\* the requester for CREATED, the actorEmail of the call for a decision, the
\* Verification's verifierEmail for VIEWED.  A Verification has at most one
\* CREATED document.
ActionOf(op) ==
    CASE op = "request" -> "CREATED"
      [] op = "view" -> "VIEWED"
      [] OTHER -> StatusOf(op)

ActorOf(c) ==
    CASE c.op = "request" -> Users[c.user].email
      [] c.op = "view" -> c.verifierEmail
      [] OTHER -> toLowerCase(c.actorEmail)

Succeeded(c) == c.code \in {200, 201}

LogOf(v, action) ==
    {k \in 1..Len(log) : log[k].verificationId = v /\ log[k].action = action}

C12_AuditComplete ==
    (last.op \in LogOps /\ Succeeded(last))
    => /\ last.logIdx \in 1..Len(log)
       /\ log[last.logIdx].verificationId = last.vid
       /\ log[last.logIdx].action = ActionOf(last.op)
       /\ log[last.logIdx].actorEmail = ActorOf(last)
       /\ Cardinality(LogOf(last.vid, "CREATED")) <= 1

C12_Witness ==
    /\ last.op = "approve"
    /\ last.code = 200
    /\ last.actorEmail = "Eve@X.org"
    /\ log[last.logIdx].action = "APPROVED"
    /\ Cardinality(LogOf(last.vid, "CREATED")) = 1

\* ---- C13: the log documents of a Verification begin with its CREATED
\* document, and at most one of them is a decision (APPROVED or REJECTED).
EntriesOf(v) == {k \in 1..Len(log) : log[k].verificationId = v}

FirstEntry(v) == CHOOSE k \in EntriesOf(v) : \A j \in EntriesOf(v) : k <= j

C13_LogOrder ==
    \A v \in VerifIds :
        /\ EntriesOf(v) # {} => log[FirstEntry(v)].action = "CREATED"
        /\ Cardinality(LogOf(v, "APPROVED") \cup LogOf(v, "REJECTED")) <= 1

\* ---- C14: a Verification, once inserted, stays in the collection and is
\* among the documents history returns for its item.
C14_NeverRemoved ==
    \A v \in VerifIds :
        /\ Present(v)
        /\ v \in History(verifs[v].itemType, verifs[v].itemId)

\* ---- C15: an approve or reject that found its Verification PENDING while the
\* item was already deleted answers 404.
C15_DeletedItemNotFound ==
    (last.op \in DecisionOps /\ last.itemGone) => last.code = 404

\* ---- C16: a request, approve or reject whose log insert was refused still
\* reports success.
C16_LogFailureNotSurfaced ==
    (last.op \in {"request"} \cup DecisionOps /\ last.logIdx = -1) => Succeeded(last)

\* ---- C17: when the request email was not sent, requestVerification answers
\* 201, and the step that answers leaves the inserted Verification and its
\* CREATED log document (and every other document) as they are.
C17_MailFailureKeepsRequest ==
    [][(last'.op = "request" /\ last'.mail = "failed")
       => /\ last'.code = 201
          /\ last'.vid \in VerifIds
          /\ last'.logIdx \in LogOf(last'.vid, "CREATED")
          /\ UNCHANGED stores]_vars

C17_Witness ==
    /\ last.op = "request"
    /\ last.mail = "failed"
    /\ last.code = 201
    /\ Present(last.vid)
    /\ verifs[last.vid].status = "PENDING"
    /\ last.logIdx \in LogOf(last.vid, "CREATED")

\* ---- C18: an approve or reject that reports success, on the token route or
\* on the dashboard route, has handed a decision email to the gateway.
C18_DecisionNotified ==
    (last.op \in DecisionOps /\ last.code = 200) => last.mail \in {"sent", "failed"}

\* ---- C19: no two stored Verifications hold the same token, and a request
\* whose generated token is already held does not fail on it.
FailedOnInsert(c) == c.op = "request" /\ c.code = 500 /\ c.token # None /\ c.vid = 0

C19_UniqueTokenWithRetry ==
    /\ \A v \in VerifIds, w \in VerifIds :
          (Present(v) /\ Present(w) /\ verifs[v].token = verifs[w].token) => v = w
    /\ ~FailedOnInsert(last)

\* ---- C20: a request by the owner, naming a verifier of the owner's institute,
\* that arrives after a reject of the item has reported success creates a new
\* Verification: it answers 201, unless the store refuses an insert (500), the
\* item has been deleted (404) or another request for the item got in first.
ValidRequest(c) ==
    /\ c.op = "request"
    /\ toUpperCase(c.itemType) \in validTypes
    /\ FindVerifierByEmail(toLowerCase(c.verifierEmail)) # None
    /\ InstituteCheck(Users[c.user],
                      Users[FindVerifierByEmail(toLowerCase(c.verifierEmail))])[1] = 0

C20_ResubmitAfterReject ==
    (ValidRequest(last) /\ last.afterReject)
    => \/ last.code \in {201, 404, 500}
       \/ last.msg = AlreadyPendingMsg(last.itemType)

ExpiredHeld(t) ==
    \E v \in VerifIds : Present(v) /\ verifs[v].token = t /\ verifs[v].expiresAt <= now

Dead(t, op) ==
    \/ NotHeld(t)
    \/ ExpiredHeld(t)
    \/ op # "view" /\ DecidedHeld(t)

GoesOn(t, op) ==
    \E p \in Procs : /\ pc[p] = "idle"
                     /\ pc'[p] # "idle"
                     /\ call'[p].op = op
                     /\ call'[p].token = t

Answers(t, op) ==
    /\ pc' = pc
    /\ last'.op = op
    /\ last'.token = t
    /\ (op = "view" \/ ~Falsy(last'.actorEmail))

C22_DeadTokensAlike ==
    [][\A t \in TokenInputs, op \in TokenOps :
          Dead(t, op)
          => /\ ~GoesOn(t, op)
             /\ Answers(t, op)
                => (last'.code = 404 /\ last'.msg = NotFoundMsg(op))]_vars

C22_Witness ==
    /\ last.op = "view"
    /\ last.code = 404
    /\ last.msg = NotFoundMsg("view")
    /\ ExpiredHeld(last.token)

\* ---- C25: no step removes an item that has verified = true.
C25_VerifiedItemKept ==
    [][\A i \in ItemIds :
          (items[i].exists /\ items[i].verified) => items'[i].exists]_vars

\* ---- C29: an item with verified = true has a stored Verification with status
\* APPROVED (unless a Verification has been removed from the collection).
C29_VerifiedMeansApproved ==
    \A i \in ItemIds :
        (items[i].exists /\ items[i].verified)
        => \/ \E v \in VerifIds : /\ Present(v)
                                  /\ verifs[v].itemId = i
                                  /\ verifs[v].status = "APPROVED"
           \/ \E v \in VerifIds : ~Present(v)

\* ---- C30: every store write of a dashboard approve or reject by the addressed
\* verifier is the write the token route makes for the same Verification with
\* actorEmail the verifier's email and the same comment.
AsTokenCall(c) ==
    [c EXCEPT !.op = IF c.op = "dashApprove" THEN "approve" ELSE "reject",
              !.actorEmail = Users[c.user].email]

C24_NoSelfVerification ==
    \A i \in ItemIds :
        (items[i].exists /\ items[i].userId = Solo) => ~items[i].verified

\* ---- C28: a notify-resend that found its live PENDING Verification and sent
\* the email answers 200 and has inserted one log document for the resend.
C28_ResendLogged ==
    (last.op = "resend" /\ last.mail = "sent")
    => /\ last.code = 200
       /\ last.logIdx \in EntriesOf(last.vid)

\* C23: after 5 failed logins on an admin account with no successful login in
\* between the account is locked, and no login gets past the lock check
\* while the account is locked, whatever its password.
C23_LockedAfterFive ==
    /\ [](\A k \in AdminKinds : failed[k] < MaxLoginAttempts)
    /\ [][\A p \in Procs :
            (adminCall[p].st = "idle" /\ adminCall'[p].st = "compare")
                => ~isLocked(admins[adminCall'[p].kind], now)]_vars

\* C27: once the user's roleSetPermanently is true, no request of that user
\* (profile setup, change-role, profile update, association request) changes
\* the user's role.
C27_PermanentRoleKept ==
    [][(/\ account.roleSetPermanently
        /\ roleLast'.op \in {"setupProfile", "changeRole", "updateMe",
                             "requestAssociation"})
          => account'.role = account.role]_vars

\* C26: a POST to /request/{experienceId} by a logged-in user passes the
\* legacy handler once and is then answered by requestVerification with
\* itemType EXPERIENCE and that id.
IsLegacyCall == req.method = "POST" /\ Len(req.url) = 2 /\ req.url[1] = "request"

C26_LegacyHandled ==
    /\ [](IsLegacyCall => req.hops <= 1)
    /\ []((IsLegacyCall /\ req.authed /\ req.st = "done")
            => /\ req.handler = "requestVerification"
               /\ req.params.itemType = "EXPERIENCE"
               /\ req.params.itemId = req.url[2])


====
